---- MODULE Spec2Model ----
\* A model of the retrieval core of chatbot_rag: the vector store wrapper
\* (src/utils/vector_store.py), the grounded answerer (src/app.py) and the
\* text chunker (src/utils/chunking.py), and of the Streamlit script's
\* sessions (src/app.py), whose script runs overlap on the one collection.
\*
\* The wrappers delegate to two libraries.  Their behaviour is modelled at the
\* call sites, as the library releases the imports pin down behave:
\*   chromadb.PersistentClient exists from chromadb 0.4 on;
\*   langchain.text_splitter.RecursiveCharacterTextSplitter together with
\*   langchain_openai is langchain 0.1 or later (keep_separator = True,
\*   strip_whitespace = True).
EXTENDS Integers, Sequences, FiniteSets, TLC

\* ------------------------------------------------------------------ bounds
MaxRecs == 3        \* records a collection may hold before inserts are cut off
MaxBatch == 2       \* longest batch handed to add_chunks
MaxK == 2           \* largest top_k handed to search
MaxVec == 1         \* embeddings are the points 0..MaxVec of a line
MaxUid == 2         \* collections created over a run
MaxLen == 4         \* longest text handed to chunk_text
MaxChunkSize == 3   \* largest chunk_size a chunker is built with
MaxHistory == 4     \* messages held by all sessions when a question is still taken
MaxLoaded == 2      \* records the collection holds where the steps of the sessions are followed

\* ------------------------------------------------------- program constants
TopK == 5           \* app.py: search(query_embedding, top_k=5)

Objs == {1, 2}      \* VectorStore objects (one per UI session), one shared DB

Min(a, b) == IF a <= b THEN a ELSE b

\* ------------------------------------------------------------ Python values
\* A metadata value: a tagged union, every field present so that values of
\* different Python types stay comparable.
PyStr(s)   == [tag |-> "str",   s |-> s,  n |-> 0, b |-> FALSE, l |-> <<>>]
PyInt(n)   == [tag |-> "int",   s |-> "", n |-> n, b |-> FALSE, l |-> <<>>]
PyFloat(n) == [tag |-> "float", s |-> "", n |-> n, b |-> FALSE, l |-> <<>>]
PyBool(b)  == [tag |-> "bool",  s |-> "", n |-> 0, b |-> b,     l |-> <<>>]
PyList(l)  == [tag |-> "list",  s |-> "", n |-> 0, b |-> FALSE, l |-> l]
PyNone     == [tag |-> "none",  s |-> "", n |-> 0, b |-> FALSE, l |-> <<>>]

\* isinstance(value, (str, int, float, bool))
IsScalar(v) == v.tag \in {"str", "int", "float", "bool"}

\* repr of a list of strings, as str(list) prints it: ['x', 'y']
RECURSIVE ReprItems(_)
ReprItems(l) ==
    IF l = <<>> THEN ""
    ELSE IF Len(l) = 1 THEN "'" \o l[1] \o "'"
    ELSE "'" \o l[1] \o "', " \o ReprItems(Tail(l))

\* str(value) for the values the sanitiser converts
StrOf(v) ==
    CASE v.tag = "list" -> "[" \o ReprItems(v.l) \o "]"
      [] v.tag = "none" -> "None"
      [] OTHER          -> v.s

\* A plausible slip: non-scalar values are dropped instead of converted.
CleanMetadataDropping(md) ==
    [key \in {k \in DOMAIN md : IsScalar(md[k])} |-> md[key]]

\* add_chunks, the metadata loop: scalars kept, everything else str(value)
CleanMetadata(md) ==
    [key \in DOMAIN md |->
        IF IsScalar(md[key]) THEN md[key] ELSE PyStr(StrOf(md[key]))]

\* ------------------------------------------------------------ input chunks
\* Embedded chunks as embed_chunks hands them over: text, embedding, metadata.
\* The metadata shapes follow the loaders (PDF: scalars only; CSV: a list of
\* column names) and one map with a None value.
MetaPdf == [source |-> PyStr("a.pdf"), chunk_id |-> PyInt(0), scanned |-> PyBool(TRUE)]
MetaCsv == [source |-> PyStr("b.csv"), columns |-> PyList(<<"x", "y">>), num_rows |-> PyInt(2)]
MetaOdd == [source |-> PyStr("c.pdf"), author |-> PyNone, score |-> PyFloat(1)]

InputChunks ==
    { [text |-> "t0", embedding |-> 0, metadata |-> MetaPdf],
      [text |-> "t1", embedding |-> MaxVec, metadata |-> MetaCsv],
      [text |-> "t2", embedding |-> 1, metadata |-> MetaOdd] }

Batches == UNION { [1..n -> InputChunks] : n \in 0..MaxBatch }

Vecs == 0..MaxVec

VARIABLES
    collUid,    \* uid of the collection named rag_documents in the DB, 0: none
    uidCount,   \* collections created so far (the next uid is uidCount + 1)
    recs,       \* the records of that collection, in insertion order
    handle,     \* handle[o]: uid of the collection object o holds, 0: no object
    last,       \* what the last call did and returned
    pc,         \* pc[o]: the call o's call in flight stands before
    bbatch,     \* bbatch[o]: the batch of o's call in flight
    bids,       \* bids[o]: the ids o's call has computed so far
    landed,     \* landed[o]: an add landed since o's call in flight began
    got,        \* got[o]: uid of the collection o's constructor in flight got
    rag,        \* rag[o]: the get_rag_response call of o in flight
    chunker,    \* the TextChunker last constructed, or the failure to construct it
    cres,       \* the last chunk_text call: its arguments and what it returned
    embedding_generator,  \* embedding_generator[s]: session s holds one
    documents_loaded,     \* documents_loaded[s] of the session state
    chat_history,         \* chat_history[s] of the session state
    run,        \* run[s]: the script run of session s, where it stands
    env         \* CHUNK_SIZE and CHUNK_OVERLAP of the process environment

storeVars == <<collUid, uidCount, recs, handle>>
concVars == <<pc, bbatch, bids, landed, got, rag>>
chunkVars == <<chunker, cres>>
appVars == <<embedding_generator, documents_loaded, chat_history, run, env>>
vars == <<collUid, uidCount, recs, handle, last, pc, bbatch, bids, landed, got,
          rag, chunker, cres, embedding_generator, documents_loaded, chat_history,
          run, env>>

NoCall ==
    [op |-> "none", o |-> 0, status |-> "ok", n |-> 0, k |-> 0, q |-> 0,
     pre |-> 0, ids |-> <<>>, input |-> <<>>, out |-> <<>>, answer |-> "",
     gen |-> <<>>, query |-> "", completion |-> ""]

\* A get_rag_response call in flight: the query it was called with, the
\* embedding it got for it, the results it retrieved and the generation
\* request it has sent
NoAsk == [query |-> "", q |-> 0, results |-> <<>>, gen |-> <<>>]

NoChunker == [state |-> "none", chunk_size |-> 0, chunk_overlap |-> 0]
NoChunking == [status |-> "none", text |-> <<>>, given |-> <<>>, chunks |-> <<>>]

\* The reply of the embedding service to one request: vectors, one per text
NoReply == [ok |-> FALSE, vectors |-> <<>>]

\* A script run of one session: at is the call on the shared collection or
\* on a service whose return it stands before ("idle": no run in flight;
\* "end": an exception of process_documents is on its way out of the
\* script), the rest is what the run has done so far.
NoRun ==
    [at |-> "idle", status |-> "none", stage |-> "",
     got |-> 0, file_paths |-> <<>>,
     documents |-> <<>>, reported |-> <<>>, chunking |-> <<>>, chunks |-> <<>>,
     attempts |-> <<>>, requests |-> <<>>, embedded |-> <<>>,
     chunks_left |-> <<>>, ids |-> <<>>, wrote |-> <<>>, pre |-> 0,
     prompt |-> "", q |-> 0, retrieval |-> <<>>, results |-> <<>>, gen |-> <<>>]

\* A script run an exception is ending
Over == [NoRun EXCEPT !.at = "end", !.status = "raised"]

\* int(os.getenv("CHUNK_SIZE", 500)), int(os.getenv("CHUNK_OVERLAP", 50)):
\* the defaults, and an environment that sets small values
DefaultChunkSize == 500
DefaultChunkOverlap == 50
DefaultEnv == [chunk_size |-> DefaultChunkSize, chunk_overlap |-> DefaultChunkOverlap]
EnvConfigs ==
    { DefaultEnv,
      [chunk_size |-> 4, chunk_overlap |-> 1] }

\* The state after start-up, but for the environment
InitProgram ==
    /\ collUid = 0
    /\ uidCount = 0
    /\ recs = <<>>
    /\ handle = [o \in Objs |-> 0]
    /\ last = NoCall
    /\ pc = [o \in Objs |-> "idle"]
    /\ bbatch = [o \in Objs |-> <<>>]
    /\ bids = [o \in Objs |-> <<>>]
    /\ landed = [o \in Objs |-> FALSE]
    /\ got = [o \in Objs |-> 0]
    /\ rag = [o \in Objs |-> NoAsk]
    /\ chunker = NoChunker
    /\ cres = NoChunking
    /\ embedding_generator = [s \in Objs |-> FALSE]
    /\ documents_loaded = [s \in Objs |-> FALSE]
    /\ chat_history = [s \in Objs |-> <<>>]
    /\ run = [s \in Objs |-> NoRun]

\* The environment sets neither variable
Init == InitProgram /\ env = DefaultEnv

\* The environment is any of the configurations
InitEnv == InitProgram /\ env \in EnvConfigs

\* ------------------------------------------------------------ the database
\* The collection object o holds is bound to a uid; it is usable while the DB
\* still holds the collection of that uid.
IsLive(o) == handle[o] # 0 /\ handle[o] = collUid

\* VectorStore.__init__ is three library calls with no lock around them:
\* get_collection, count() for the print, and create_collection in the bare
\* except of the two. Other callers' calls may fall between them.

\* client.get_collection(name): the uid of the collection that carries the
\* name now, 0 when it raises because there is none
GetCollection == collUid

\* collection.count() on a collection object bound to uid g: raises when the
\* DB no longer holds that collection
CountRaises(g) == g # collUid

\* client.create_collection(name) raises when the name is taken
CreateRaises == collUid # 0

\* __init__ up to get_collection: on success the print's count() is next,
\* on failure create_collection
NewVectorStore(o) ==
    /\ pc[o] = "idle"
    /\ got' = [got EXCEPT ![o] = GetCollection]
    /\ pc' = [pc EXCEPT ![o] = IF GetCollection # 0 THEN "count" ELSE "create"]
    /\ last' = [NoCall EXCEPT !.op = "get", !.o = o, !.pre = Len(recs)]
    /\ UNCHANGED <<storeVars, bbatch, bids, landed, rag, chunkVars, appVars>>

\* The print's count(): the object is built on the collection it got, or the
\* bare except takes over when the collection was deleted meanwhile
NewVectorStoreCount(o) ==
    /\ pc[o] = "count"
    /\ IF CountRaises(got[o])
       THEN /\ pc' = [pc EXCEPT ![o] = "create"]
            /\ got' = [got EXCEPT ![o] = 0]
            /\ last' = [NoCall EXCEPT !.op = "count", !.o = o, !.pre = Len(recs),
                                      !.status = "error"]
            /\ UNCHANGED handle
       ELSE /\ pc' = [pc EXCEPT ![o] = "idle"]
            /\ handle' = [handle EXCEPT ![o] = got[o]]
            /\ got' = [got EXCEPT ![o] = 0]
            /\ last' = [NoCall EXCEPT !.op = "init", !.o = o, !.pre = Len(recs)]
    /\ UNCHANGED <<collUid, uidCount, recs, bbatch, bids, landed, rag, chunkVars, appVars>>

\* create_collection in the except branch: a new, empty collection, or the
\* exception that leaves the caller without a new object
NewVectorStoreCreate(o) ==
    /\ pc[o] = "create"
    /\ IF CreateRaises
       THEN /\ last' = [NoCall EXCEPT !.op = "init", !.o = o, !.pre = Len(recs),
                                      !.status = "error"]
            /\ UNCHANGED storeVars
       ELSE /\ uidCount < MaxUid
            /\ uidCount' = uidCount + 1
            /\ collUid' = uidCount + 1
            /\ recs' = <<>>
            /\ handle' = [handle EXCEPT ![o] = uidCount + 1]
            /\ last' = [NoCall EXCEPT !.op = "init", !.o = o, !.pre = Len(recs)]
    /\ pc' = [pc EXCEPT ![o] = "idle"]
    /\ got' = [got EXCEPT ![o] = 0]
    /\ UNCHANGED <<bbatch, bids, landed, rag, chunkVars, appVars>>

\* collection.count() on the collection object o holds
CollectionCount(o) == Len(recs)

\* The id of a record: f"chunk_{n}"
IdOf(n) == "chunk_" \o ToString(n)

\* The counter an id was formatted from
CounterOf(id) == CHOOSE n \in 0..(2 * (MaxRecs + MaxBatch) + 1) : IdOf(n) = id

\* A plausible slip: the id is the position in the batch alone.
ChunkIdNoCount(count, i) == IdOf(i)

\* A plausible slip: ids counted from one.
ChunkIdOneBased(count, i) == IdOf(count + i + 1)

\* add_chunks: chunk_id = f"chunk_{self.collection.count() + i}"
ChunkId(count, i) == IdOf(count + i)

\* The record add_chunks builds for the i-th chunk of a batch (i from 0)
NewRecord(id, chunk) ==
    [id |-> id, vec |-> chunk.embedding, text |-> chunk.text,
     metadata |-> CleanMetadata(chunk.metadata)]

IdsOf(rs) == {rs[i].id : i \in 1..Len(rs)}

HasDuplicates(ids) ==
    \E i, j \in 1..Len(ids) : i < j /\ ids[i] = ids[j]

\* collection.add(ids, embeddings, documents, metadatas): a batch that
\* repeats an id is rejected whole (DuplicateIDError); a record whose id the
\* collection already holds is skipped without an error; the rest is appended.
CollectionAdd(rs, new) ==
    IF HasDuplicates([i \in 1..Len(new) |-> new[i].id])
    THEN [status |-> "error", recs |-> rs]
    ELSE [status |-> "ok",
          recs |-> rs \o SelectSeq(new, LAMBDA r : r.id \notin IdsOf(rs))]

\* A plausible slip: add_chunks re-creates the collection when its own is gone.
AddChunksRecreating(o, batch) ==
    LET base == IF IsLive(o) THEN recs ELSE <<>>
        ids == [i \in 1..Len(batch) |-> ChunkId(Len(base), i - 1)]
        new == [i \in 1..Len(batch) |-> NewRecord(ids[i], batch[i])]
        res == CollectionAdd(base, new)
    IN  IF batch = <<>>
        THEN [status |-> "warn", recs |-> recs, ids |-> <<>>]
        ELSE [status |-> res.status, recs |-> res.recs, ids |-> ids]

\* A plausible slip: the early return on an empty batch is missing, and
\* collection.add rejects empty id lists.
AddChunksNoEmptyGuard(o, batch) ==
    LET ids == [i \in 1..Len(batch) |-> ChunkId(Len(recs), i - 1)]
        new == [i \in 1..Len(batch) |-> NewRecord(ids[i], batch[i])]
        res == CollectionAdd(recs, new)
    IN  IF ~IsLive(o) \/ batch = <<>>
        THEN [status |-> "error", recs |-> recs, ids |-> <<>>]
        ELSE [status |-> res.status, recs |-> res.recs, ids |-> ids]

\* add_chunks run to completion with no other call in between: the empty
\* batch returns before the collection is touched; count() raises when the
\* collection is gone; otherwise every id is count() + i with count() read
\* before anything is added.
AddChunksCall(o, batch) ==
    LET ids == [i \in 1..Len(batch) |-> ChunkId(CollectionCount(o), i - 1)]
        new == [i \in 1..Len(batch) |-> NewRecord(ids[i], batch[i])]
        res == CollectionAdd(recs, new)
    IN  IF batch = <<>>
        THEN [status |-> "warn", recs |-> recs, ids |-> <<>>]
        ELSE IF ~IsLive(o)
        THEN [status |-> "error", recs |-> recs, ids |-> <<>>]
        ELSE [status |-> res.status, recs |-> res.recs, ids |-> ids]

AddChunks(o, batch) ==
    /\ pc[o] = "idle"
    /\ handle[o] # 0
    /\ Len(recs) + Len(batch) <= MaxRecs
    /\ LET r == AddChunksCall(o, batch)
       IN  /\ recs' = r.recs
           /\ last' = [NoCall EXCEPT !.op = "add", !.o = o, !.status = r.status,
                                     !.n = Len(batch), !.pre = Len(recs),
                                     !.ids = r.ids, !.input = batch]
    /\ UNCHANGED <<collUid, uidCount, handle>>
    /\ UNCHANGED <<concVars, chunkVars, appVars>>

\* ------------------------------------------------------------------ search
\* The distance of the default space of a collection (squared L2)
Distance(q, v) == (q - v) * (q - v)

\* The indices of rs ordered by distance to q, nearest first; records at the
\* same distance keep their insertion order.
RECURSIVE NearestFirst(_, _, _)
NearestFirst(S, rs, q) ==
    IF S = {} THEN <<>>
    ELSE LET i == CHOOSE a \in S : \A b \in S :
                      \/ Distance(q, rs[a].vec) < Distance(q, rs[b].vec)
                      \/ /\ Distance(q, rs[a].vec) = Distance(q, rs[b].vec)
                         /\ a <= b
         IN  <<i>> \o NearestFirst(S \ {i}, rs, q)

Ranked(rs, q) == NearestFirst(1..Len(rs), rs, q)

\* collection.query(query_embeddings=[q], n_results=k): one result list per
\* query, cut to the records the collection holds when k asks for more
CollectionQuery(rs, q, k) ==
    LET order == SubSeq(Ranked(rs, q), 1, Min(k, Len(rs)))
    IN  [ids       |-> << [i \in 1..Len(order) |-> rs[order[i]].id] >>,
         documents |-> << [i \in 1..Len(order) |-> rs[order[i]].text] >>,
         metadatas |-> << [i \in 1..Len(order) |-> rs[order[i]].metadata] >>,
         distances |-> << [i \in 1..Len(order) |-> Distance(q, rs[order[i]].vec)] >>]

\* A plausible slip: the loop runs over the outer list (one entry per query)
\* instead of the result list of the one query.
FormatResultsOuterLen(results) ==
    IF results.documents # <<>> /\ results.documents[1] # <<>>
    THEN [i \in 1..Len(results.documents) |->
            [text     |-> results.documents[1][i],
             metadata |-> results.metadatas[1][i],
             distance |-> results.distances[1][i],
             id       |-> results.ids[1][i]]]
    ELSE <<>>

\* search: the formatting of the query's result lists
FormatResults(results) ==
    IF results.documents # <<>> /\ results.documents[1] # <<>>
    THEN [i \in 1..Len(results.documents[1]) |->
            [text     |-> results.documents[1][i],
             metadata |-> results.metadatas[1][i],
             distance |-> results.distances[1][i],
             id       |-> results.ids[1][i]]]
    ELSE <<>>

SearchCall(q, k) == FormatResults(CollectionQuery(recs, q, k))

Search(o, q, k) ==
    /\ pc[o] = "idle"
    /\ handle[o] # 0
    /\ last' = IF IsLive(o)
               THEN [NoCall EXCEPT !.op = "search", !.o = o, !.k = k, !.q = q,
                                   !.pre = Len(recs), !.out = SearchCall(q, k)]
               ELSE [NoCall EXCEPT !.op = "search", !.o = o, !.k = k, !.q = q,
                                   !.pre = Len(recs), !.status = "error"]
    /\ UNCHANGED storeVars
    /\ UNCHANGED <<concVars, chunkVars, appVars>>

\* get_stats: total_documents is collection.count()
GetStats(o) ==
    /\ pc[o] = "idle"
    /\ handle[o] # 0
    /\ last' = IF IsLive(o)
               THEN [NoCall EXCEPT !.op = "stats", !.o = o, !.pre = Len(recs),
                                   !.n = CollectionCount(o)]
               ELSE [NoCall EXCEPT !.op = "stats", !.o = o, !.pre = Len(recs),
                                   !.status = "error"]
    /\ UNCHANGED storeVars
    /\ UNCHANGED <<concVars, chunkVars, appVars>>

\* delete_collection: client.delete_collection(name) drops whatever collection
\* carries the name now, and raises when there is none; the object keeps the
\* collection object it held.
DeleteCollection(o) ==
    /\ pc[o] = "idle"
    /\ handle[o] # 0
    /\ IF collUid # 0
       THEN /\ collUid' = 0
            /\ recs' = <<>>
            /\ last' = [NoCall EXCEPT !.op = "delete", !.o = o, !.pre = Len(recs)]
       ELSE /\ UNCHANGED <<collUid, recs>>
            /\ last' = [NoCall EXCEPT !.op = "delete", !.o = o, !.pre = Len(recs),
                                      !.status = "error"]
    /\ UNCHANGED <<uidCount, handle>>
    /\ UNCHANGED <<concVars, chunkVars, appVars>>

\* ------------------------------------------------------------ the answerer
Refusal == "refusal"
Queries == {"q0", "q1"}
Answers == {"a0"}

\* "\n\n".join(texts)
RECURSIVE JoinBlank(_)
JoinBlank(texts) ==
    IF texts = <<>> THEN ""
    ELSE IF Len(texts) = 1 THEN texts[1]
    ELSE texts[1] \o "\n\n" \o JoinBlank(Tail(texts))

\* A plausible slip: the context is joined by a single newline.
RECURSIVE JoinLine(_)
JoinLine(texts) ==
    IF texts = <<>> THEN ""
    ELSE IF Len(texts) = 1 THEN texts[1]
    ELSE texts[1] \o "\n" \o JoinLine(Tail(texts))

GenRequestSingleNewline(user_query, results) ==
    [context |-> JoinLine([i \in 1..Len(results) |-> results[i].text]),
     query   |-> user_query,
     nctx    |-> Len(results)]

\* The generation request get_rag_response builds from the retrieved results
GenRequest(user_query, results) ==
    [context |-> JoinBlank([i \in 1..Len(results) |-> results[i].text]),
     query   |-> user_query,
     nctx    |-> Len(results)]

\* A plausible slip: the empty-result short-circuit is missing.
RagResponseNoGuard(user_query, results, completion) ==
    [answer |-> completion, sources |-> results,
     gen |-> <<GenRequest(user_query, results)>>]

\* get_rag_response after retrieval: the refusal when nothing was retrieved,
\* else one generation request and its completion
RagResponse(user_query, results, completion) ==
    IF results = <<>>
    THEN [answer |-> Refusal, sources |-> <<>>, gen |-> <<>>]
    ELSE [answer |-> completion, sources |-> results,
          gen |-> <<GenRequest(user_query, results)>>]

\* get_rag_response of the session that holds object o is a step at each call
\* that leaves it: the request to embed_text, its reply, the search on the
\* collection, and the reply of client.chat.completions.create.  The other
\* session's calls on the collection fall between them.

\* get_rag_response(user_query) up to the request to embed_text
GetRagResponse(o, user_query) ==
    /\ pc[o] = "idle"
    /\ pc' = [pc EXCEPT ![o] = "embed_query"]
    /\ rag' = [rag EXCEPT ![o] = [NoAsk EXCEPT !.query = user_query]]
    /\ last' = [NoCall EXCEPT !.op = "ask", !.o = o, !.pre = Len(recs),
                              !.query = user_query]
    /\ UNCHANGED <<storeVars, bbatch, bids, landed, got, chunkVars, appVars>>

\* The reply of embed_text: q is the embedding of the query.  embedded is
\* FALSE when embed_text raises: the exception leaves get_rag_response before
\* any search (k is 0: no search was made).
GetRagResponseEmbedded(o, embedded, q) ==
    /\ pc[o] = "embed_query"
    /\ IF embedded
       THEN /\ pc' = [pc EXCEPT ![o] = "search"]
            /\ rag' = [rag EXCEPT ![o].q = q]
            /\ last' = [NoCall EXCEPT !.op = "embed_query", !.o = o, !.q = q,
                                      !.pre = Len(recs), !.query = rag[o].query]
       ELSE /\ pc' = [pc EXCEPT ![o] = "idle"]
            /\ rag' = [rag EXCEPT ![o] = NoAsk]
            /\ last' = [NoCall EXCEPT !.op = "rag", !.o = o, !.pre = Len(recs),
                                      !.status = "error", !.query = rag[o].query]
    /\ UNCHANGED <<storeVars, bbatch, bids, landed, got, chunkVars, appVars>>

\* What get_rag_response does with the results of its search: the refusal is
\* returned at once, else the generation request goes out
GetRagResponseRetrieved(o, results, r) ==
    IF r.gen = <<>>
    THEN /\ pc' = [pc EXCEPT ![o] = "idle"]
         /\ rag' = [rag EXCEPT ![o] = NoAsk]
         /\ last' = [NoCall EXCEPT !.op = "rag", !.o = o, !.k = TopK,
                                   !.q = rag[o].q, !.pre = Len(recs),
                                   !.input = results, !.out = r.sources,
                                   !.answer = r.answer, !.query = rag[o].query]
    ELSE /\ pc' = [pc EXCEPT ![o] = "generate"]
         /\ rag' = [rag EXCEPT ![o].results = results, ![o].gen = r.gen]
         /\ last' = [NoCall EXCEPT !.op = "retrieve", !.o = o, !.k = TopK,
                                   !.q = rag[o].q, !.pre = Len(recs),
                                   !.query = rag[o].query]

\* vector_store.search(query_embedding, top_k=5) on the collection as it is
\* now; it raises on a collection deleted meanwhile (or with no store at all)
GetRagResponseSearch(o) ==
    /\ pc[o] = "search"
    /\ IF IsLive(o)
       THEN GetRagResponseRetrieved(o, SearchCall(rag[o].q, TopK),
                RagResponse(rag[o].query, SearchCall(rag[o].q, TopK), ""))
       ELSE /\ pc' = [pc EXCEPT ![o] = "idle"]
            /\ rag' = [rag EXCEPT ![o] = NoAsk]
            /\ last' = [NoCall EXCEPT !.op = "rag", !.o = o, !.k = TopK,
                                      !.q = rag[o].q, !.pre = Len(recs),
                                      !.status = "error", !.query = rag[o].query]
    /\ UNCHANGED <<storeVars, bbatch, bids, landed, got, chunkVars, appVars>>

\* The reply of client.chat.completions.create: completion is the text it
\* returns, and get_rag_response returns it with the results it retrieved,
\* whatever the collection holds by now.  generated is FALSE when the call
\* raises: the request has gone out and the exception leaves get_rag_response.
GetRagResponseGenerated(o, completion, generated) ==
    /\ pc[o] = "generate"
    /\ pc' = [pc EXCEPT ![o] = "idle"]
    /\ rag' = [rag EXCEPT ![o] = NoAsk]
    /\ last' = IF generated
               THEN LET r == RagResponse(rag[o].query, rag[o].results, completion)
                    IN  [NoCall EXCEPT !.op = "rag", !.o = o, !.k = TopK,
                                       !.q = rag[o].q, !.pre = Len(recs),
                                       !.input = rag[o].results,
                                       !.out = r.sources, !.answer = r.answer,
                                       !.gen = rag[o].gen,
                                       !.query = rag[o].query,
                                       !.completion = completion]
               ELSE [NoCall EXCEPT !.op = "rag", !.o = o, !.k = TopK,
                                   !.q = rag[o].q, !.pre = Len(recs),
                                   !.status = "error",
                                   !.input = rag[o].results, !.gen = rag[o].gen,
                                   !.query = rag[o].query]
    /\ UNCHANGED <<storeVars, bbatch, bids, landed, got, chunkVars, appVars>>

Next ==
    \/ \E o \in Objs : NewVectorStore(o)
    \/ \E o \in Objs : NewVectorStoreCount(o)
    \/ \E o \in Objs : NewVectorStoreCreate(o)
    \/ \E o \in Objs, batch \in Batches : AddChunks(o, batch)
    \/ \E o \in Objs, q \in Vecs, k \in 1..MaxK : Search(o, q, k)
    \/ \E o \in Objs : GetStats(o)
    \/ \E o \in Objs : DeleteCollection(o)

\* The callers' calls follow one another in any order; only the constructor,
\* a check-then-act of three library calls, is taken apart into its calls.
Spec == Init /\ [][Next]_vars

\* o's get_rag_response call is in flight
Asking(o) == pc[o] \in {"embed_query", "search", "generate"}

\* The answerer on the store: the sessions' calls that change the collection
\* fall between the steps of a get_rag_response call, whose embedding and
\* generation services answer or fail.  One get_rag_response call is followed
\* at a time (two calls share nothing but the collection they read; the
\* sessions' overlapping questions are in SpecApp), the records arrive one
\* add_chunks call each, and the collection holds up to MaxLoaded of them.
NextRag ==
    \/ \E o \in Objs : NewVectorStore(o)
    \/ \E o \in Objs : NewVectorStoreCount(o)
    \/ \E o \in Objs : NewVectorStoreCreate(o)
    \/ \E o \in Objs, batch \in {b \in Batches : Len(b) <= 1} :
          /\ Len(recs) + Len(batch) <= MaxLoaded
          /\ AddChunks(o, batch)
    \/ \E o \in Objs : DeleteCollection(o)
    \/ \E o \in Objs, user_query \in Queries :
          /\ \A p \in Objs \ {o} : ~Asking(p)
          /\ GetRagResponse(o, user_query)
    \/ \E o \in Objs, embedded \in BOOLEAN :
          \E q \in (IF embedded THEN Vecs ELSE {0}) :
             GetRagResponseEmbedded(o, embedded, q)
    \/ \E o \in Objs : GetRagResponseSearch(o)
    \/ \E o \in Objs, completion \in Answers, generated \in BOOLEAN :
          GetRagResponseGenerated(o, completion, generated)

SpecRag == Init /\ [][NextRag]_vars

\* --------------------------------------------- add_chunks, callers overlapping
\* Two sessions call add_chunks on the same collection with nothing serialising
\* them: a step is one pass of the id loop (one count() read) or the final
\* collection.add.  Only writers are studied here: no delete_collection runs.
InFlight(o) == pc[o] # "idle"

PendingLen == LET f[S \in SUBSET Objs] ==
                      IF S = {} THEN 0
                      ELSE LET o == CHOOSE x \in S : TRUE
                           IN  (IF InFlight(o) THEN Len(bbatch[o]) ELSE 0) + f[S \ {o}]
              IN  f[Objs]

\* add_chunks up to the loop: the empty batch returns at once
BeginAdd(o, batch) ==
    /\ handle[o] # 0
    /\ pc[o] = "idle"
    /\ Len(recs) + PendingLen + Len(batch) <= MaxRecs
    /\ IF batch = <<>>
       THEN /\ last' = [NoCall EXCEPT !.op = "add", !.o = o, !.status = "warn",
                                      !.pre = Len(recs)]
            /\ UNCHANGED <<concVars, chunkVars, appVars>>
       ELSE /\ pc' = [pc EXCEPT ![o] = "loop"]
            /\ bbatch' = [bbatch EXCEPT ![o] = batch]
            /\ bids' = [bids EXCEPT ![o] = <<>>]
            /\ landed' = [landed EXCEPT ![o] = FALSE]
            /\ last' = [NoCall EXCEPT !.op = "begin", !.o = o, !.n = Len(batch),
                                      !.pre = Len(recs)]
            /\ UNCHANGED got
    /\ UNCHANGED <<storeVars, rag, chunkVars, appVars>>

\* One pass of the loop: read count(), append the id of chunk i
LoopStep(o) ==
    /\ pc[o] = "loop"
    /\ IF IsLive(o)
       THEN LET ids == Append(bids[o], ChunkId(CollectionCount(o), Len(bids[o])))
            IN  /\ bids' = [bids EXCEPT ![o] = ids]
                /\ pc' = [pc EXCEPT ![o] =
                            IF Len(ids) = Len(bbatch[o]) THEN "add" ELSE "loop"]
                /\ last' = [NoCall EXCEPT !.op = "loop", !.o = o, !.pre = Len(recs)]
                /\ UNCHANGED <<bbatch, landed>>
       ELSE /\ pc' = [pc EXCEPT ![o] = "idle"]
            /\ bids' = [bids EXCEPT ![o] = <<>>]
            /\ bbatch' = [bbatch EXCEPT ![o] = <<>>]
            /\ last' = [NoCall EXCEPT !.op = "add", !.o = o, !.status = "error",
                                      !.pre = Len(recs)]
            /\ UNCHANGED landed
    /\ UNCHANGED <<storeVars, got, rag, chunkVars, appVars>>

\* The collection.add that ends the call
DoAdd(o) ==
    /\ pc[o] = "add"
    /\ LET new == [i \in 1..Len(bbatch[o]) |-> NewRecord(bids[o][i], bbatch[o][i])]
           res == IF IsLive(o) THEN CollectionAdd(recs, new)
                  ELSE [status |-> "error", recs |-> recs]
       IN  /\ recs' = res.recs
           /\ landed' = [p \in Objs |->
                           IF p # o /\ InFlight(p) /\ res.recs # recs
                           THEN TRUE ELSE landed[p]]
           /\ last' = [NoCall EXCEPT !.op = "add", !.o = o, !.status = res.status,
                                     !.n = Len(bbatch[o]), !.pre = Len(recs),
                                     !.ids = bids[o], !.input = bbatch[o]]
    /\ pc' = [pc EXCEPT ![o] = "idle"]
    /\ bids' = [bids EXCEPT ![o] = <<>>]
    /\ bbatch' = [bbatch EXCEPT ![o] = <<>>]
    /\ UNCHANGED <<collUid, uidCount, handle, got, rag, chunkVars, appVars>>

NextConc ==
    \/ \E o \in Objs : NewVectorStore(o)
    \/ \E o \in Objs : NewVectorStoreCount(o)
    \/ \E o \in Objs : NewVectorStoreCreate(o)
    \/ \E o \in Objs, batch \in Batches : BeginAdd(o, batch)
    \/ \E o \in Objs : LoopStep(o)
    \/ \E o \in Objs : DoAdd(o)

SpecConc == Init /\ [][NextConc]_vars

\* ================================================================ chunking
\* Text is a sequence of characters.
Alphabet == {"a", " ", ".", "\n"}
Whitespace == {" ", "\n", "\t", "\r"}

\* TextChunker.__init__: the default separators, coarsest first
Separators ==
    << <<"\n", "\n">>, <<"\n">>, <<".", " ">>, <<"!", " ">>, <<"?", " ">>,
       <<",", " ">>, <<" ">>, <<>> >>

Texts == UNION { [1..n -> Alphabet] : n \in 0..MaxLen }

RECURSIVE LStrip(_)
LStrip(t) == IF t # <<>> /\ Head(t) \in Whitespace THEN LStrip(Tail(t)) ELSE t

RECURSIVE RStrip(_)
RStrip(t) ==
    IF t # <<>> /\ t[Len(t)] \in Whitespace
    THEN RStrip(SubSeq(t, 1, Len(t) - 1)) ELSE t

\* str.strip()
Strip(t) == RStrip(LStrip(t))

\* chunk_text: not text or not text.strip()
IsBlank(t) == t = <<>> \/ Strip(t) = <<>>

StartsWith(t, sep) == Len(sep) <= Len(t) /\ SubSeq(t, 1, Len(sep)) = sep

\* re.search(re.escape(sep), text)
Contains(t, sep) ==
    \E i \in 1..(Len(t) - Len(sep) + 1) : SubSeq(t, i, i + Len(sep) - 1) = sep

\* separator.join(docs)
RECURSIVE Join(_, _)
Join(ss, sep) ==
    IF ss = <<>> THEN <<>>
    ELSE IF Len(ss) = 1 THEN ss[1]
    ELSE ss[1] \o sep \o Join(Tail(ss), sep)

\* re.split with the separator captured: the text before the first match,
\* then each match glued to the front of the text that follows it.  acc is the
\* piece being read.
RECURSIVE SplitKeepRec(_, _, _)
SplitKeepRec(t, sep, acc) ==
    IF t = <<>> THEN <<acc>>
    ELSE IF StartsWith(t, sep)
    THEN <<acc>> \o SplitKeepRec(SubSeq(t, Len(sep) + 1, Len(t)), sep, sep)
    ELSE SplitKeepRec(Tail(t), sep, Append(acc, Head(t)))

\* _split_text_with_regex(text, separator, keep_separator=True): the empty
\* separator splits into characters; empty pieces are dropped
SplitWithSeparator(t, sep) ==
    LET pieces == IF sep = <<>> THEN [i \in 1..Len(t) |-> <<t[i]>>]
                  ELSE SplitKeepRec(t, sep, <<>>)
    IN  SelectSeq(pieces, LAMBDA x : x # <<>>)

\* _join_docs: joined and stripped; the empty text stands for None
JoinDocs(docs, sep) == Strip(Join(docs, sep))

\* _merge_splits, the inner while loop: drop pieces from the front of the
\* current chunk until what is left fits the overlap and leaves room for the
\* next piece.  Popping from an empty chunk is Python's IndexError.
RECURSIVE PopFront(_, _, _, _, _, _)
PopFront(cur, total, len, sepLen, chunk_size, chunk_overlap) ==
    IF \/ total > chunk_overlap
       \/ /\ total + len + (IF Len(cur) > 0 THEN sepLen ELSE 0) > chunk_size
          /\ total > 0
    THEN IF cur = <<>>
         THEN [err |-> TRUE, cur |-> cur, total |-> total]
         ELSE PopFront(Tail(cur),
                       total - (Len(cur[1]) + (IF Len(cur) > 1 THEN sepLen ELSE 0)),
                       len, sepLen, chunk_size, chunk_overlap)
    ELSE [err |-> FALSE, cur |-> cur, total |-> total]

AppendDoc(docs, doc) == IF doc = <<>> THEN docs ELSE Append(docs, doc)

\* _merge_splits, the test that closes the current chunk
Exceeds(total, len, sepLen, nonEmpty, chunk_size) ==
    total + len + (IF nonEmpty THEN sepLen ELSE 0) > chunk_size

\* _merge_splits, the loop over the pieces
RECURSIVE MergeRec(_, _, _, _, _, _, _)
MergeRec(splits, sep, docs, cur, total, chunk_size, chunk_overlap) ==
    IF splits = <<>> THEN [err |-> FALSE, out |-> AppendDoc(docs, JoinDocs(cur, sep))]
    ELSE
      LET d == Head(splits)
          len == Len(d)
          close == Exceeds(total, len, Len(sep), Len(cur) > 0, chunk_size)
                      /\ Len(cur) > 0
          docs1 == IF close THEN AppendDoc(docs, JoinDocs(cur, sep)) ELSE docs
          pop == IF close
                 THEN PopFront(cur, total, len, Len(sep), chunk_size, chunk_overlap)
                 ELSE [err |-> FALSE, cur |-> cur, total |-> total]
          cur2 == Append(pop.cur, d)
          total2 == pop.total + len + (IF Len(cur2) > 1 THEN Len(sep) ELSE 0)
      IN  IF pop.err THEN [err |-> TRUE, out |-> docs1]
          ELSE MergeRec(Tail(splits), sep, docs1, cur2, total2,
                        chunk_size, chunk_overlap)

\* _merge_splits(splits, separator)
MergeSplits(splits, sep, chunk_size, chunk_overlap) ==
    MergeRec(splits, sep, <<>>, <<>>, 0, chunk_size, chunk_overlap)

\* _split_text, the choice of the separator: the first one that is empty or
\* occurs in the text (0: none does)
FirstSeparator(t, seps) ==
    IF \E i \in 1..Len(seps) : seps[i] = <<>> \/ Contains(t, seps[i])
    THEN CHOOSE i \in 1..Len(seps) :
            /\ seps[i] = <<>> \/ Contains(t, seps[i])
            /\ \A j \in 1..(i - 1) : ~(seps[j] = <<>> \/ Contains(t, seps[j]))
    ELSE 0

\* _split_text(text, separators): pieces shorter than chunk_size are merged,
\* a longer piece is split again with the finer separators, or kept whole when
\* none is left.  With keep_separator the pieces are merged with no separator.
RECURSIVE SplitTextRec(_, _, _, _)
RECURSIVE SplitLoop(_, _, _, _, _, _)
SplitLoop(splits, good, final, newSeps, chunk_size, chunk_overlap) ==
    IF splits = <<>>
    THEN IF good # <<>>
         THEN LET m == MergeSplits(good, <<>>, chunk_size, chunk_overlap)
              IN  [err |-> m.err, out |-> final \o m.out]
         ELSE [err |-> FALSE, out |-> final]
    ELSE
      LET s == Head(splits)
      IN  IF Len(s) < chunk_size
          THEN SplitLoop(Tail(splits), Append(good, s), final, newSeps,
                         chunk_size, chunk_overlap)
          ELSE
            LET m == IF good # <<>>
                     THEN MergeSplits(good, <<>>, chunk_size, chunk_overlap)
                     ELSE [err |-> FALSE, out |-> <<>>]
                sub == IF newSeps = <<>>
                       THEN [err |-> FALSE, out |-> <<s>>]
                       ELSE SplitTextRec(s, newSeps, chunk_size, chunk_overlap)
            IN  IF m.err THEN [err |-> TRUE, out |-> final \o m.out]
                ELSE IF sub.err THEN [err |-> TRUE, out |-> final \o m.out \o sub.out]
                ELSE SplitLoop(Tail(splits), <<>>, final \o m.out \o sub.out,
                               newSeps, chunk_size, chunk_overlap)

SplitTextRec(t, seps, chunk_size, chunk_overlap) ==
    LET i == FirstSeparator(t, seps)
        separator == IF i = 0 THEN seps[Len(seps)] ELSE seps[i]
        newSeps == IF i = 0 \/ seps[i] = <<>> THEN <<>>
                   ELSE SubSeq(seps, i + 1, Len(seps))
    IN  SplitLoop(SplitWithSeparator(t, separator), <<>>, <<>>, newSeps,
                  chunk_size, chunk_overlap)

\* A plausible slip: the separator list lacks the final empty separator.
SplitTextNoCharFallback(t, chunk_size, chunk_overlap) ==
    SplitTextRec(t, SubSeq(Separators, 1, Len(Separators) - 1),
                 chunk_size, chunk_overlap)

\* splitter.split_text(text) of the splitter built with the default separators
SplitText(t, chunk_size, chunk_overlap) ==
    SplitTextRec(t, Separators, chunk_size, chunk_overlap)

\* -------------------------------------------------------------- TextChunker
\* The document metadata handed to chunk_text: none, what a loader provides,
\* and a map that uses a key chunk_text writes itself.
NoMeta == <<>>
DocMetas ==
    { NoMeta,
      [source |-> PyStr("a.pdf")],
      [source |-> PyStr("a.pdf"), chunk_id |-> PyInt(7)] }

\* chunk_text, the metadata of chunk i of n: the three chunk keys, then the
\* document metadata spread over them
ChunkMetadata(i, chunk, n, metadata) ==
    LET own == [chunk_id |-> PyInt(i), chunk_size |-> PyInt(Len(chunk)),
                total_chunks |-> PyInt(n)]
    IN  [key \in DOMAIN own \cup DOMAIN metadata |->
            IF key \in DOMAIN metadata THEN metadata[key] ELSE own[key]]

\* chunk_text(text, metadata)
ChunkTextCall(t, metadata, chunk_size, chunk_overlap) ==
    IF IsBlank(t)
    THEN [status |-> "ok", text |-> t, given |-> metadata, chunks |-> <<>>]
    ELSE LET r == SplitText(t, chunk_size, chunk_overlap)
         IN  IF r.err
             THEN [status |-> "error", text |-> t, given |-> metadata,
                   chunks |-> <<>>]
             ELSE [status |-> "ok", text |-> t, given |-> metadata,
                   chunks |-> [i \in 1..Len(r.out) |->
                       [text |-> r.out[i],
                        metadata |-> ChunkMetadata(i - 1, r.out[i], Len(r.out),
                                                   metadata)]]]

\* TextChunker(chunk_size, chunk_overlap) with chunk_overlap >= 0: TextChunker
\* checks nothing itself; the splitter it builds rejects chunk_overlap >
\* chunk_size and nothing else.
NewTextChunker(chunk_size, chunk_overlap) ==
    /\ chunk_overlap >= 0
    /\ chunker' = [state |-> IF chunk_overlap > chunk_size THEN "error" ELSE "ready",
                   chunk_size |-> chunk_size, chunk_overlap |-> chunk_overlap]
    /\ cres' = NoChunking
    /\ UNCHANGED <<storeVars, last, concVars, appVars>>

\* TextChunker(chunk_size, chunk_overlap) with chunk_overlap < 0: splitter
\* releases differ, the later ones raise ValueError, the earlier ones accept.
NewTextChunkerNegative(chunk_size, chunk_overlap, accepted) ==
    /\ chunk_overlap < 0
    /\ chunker' = [state |-> IF accepted THEN "ready" ELSE "error",
                   chunk_size |-> chunk_size, chunk_overlap |-> chunk_overlap]
    /\ cres' = NoChunking
    /\ UNCHANGED <<storeVars, last, concVars, appVars>>

\* chunk_text keeps nothing between calls: the first call on each chunker is
\* followed, a later one would return what a first call returns.
ChunkText(t, metadata) ==
    /\ chunker.state = "ready"
    /\ cres.status = "none"
    /\ cres' = ChunkTextCall(t, metadata, chunker.chunk_size, chunker.chunk_overlap)
    /\ UNCHANGED <<storeVars, last, concVars, chunker, appVars>>

NextChunk ==
    \/ \E chunk_size \in 1..MaxChunkSize, chunk_overlap \in 0..(MaxChunkSize + 1) :
          NewTextChunker(chunk_size, chunk_overlap)
    \/ \E chunk_size \in 1..MaxChunkSize, accepted \in BOOLEAN :
          NewTextChunkerNegative(chunk_size, -1, accepted)
    \/ \E t \in Texts, metadata \in DocMetas : ChunkText(t, metadata)

SpecChunk == Init /\ [][NextChunk]_vars

\* ------------------------------------------------------------ the loader
\* A file on disk, as process_uploaded_file saved it: a PDF is its pages'
\* extracted texts, a CSV its column names and rows of cell texts; readable
\* is FALSE for a file the parser library rejects.
FilePdf == [name |-> "a.pdf", ext |-> ".pdf", readable |-> TRUE,
            pages |-> << <<"a", "a">>, <<" ">>, <<"a">> >>,
            columns |-> <<>>, rows |-> <<>>]
FileCsv == [name |-> "b.csv", ext |-> ".csv", readable |-> TRUE,
            pages |-> <<>>,
            columns |-> <<"x">>, rows |-> << << <<"a">> >> >>]
FileTxt == [name |-> "c.txt", ext |-> ".txt", readable |-> TRUE,
            pages |-> << <<"a">> >>, columns |-> <<>>, rows |-> <<>>]
FileBroken == [name |-> "d.pdf", ext |-> ".pdf", readable |-> FALSE,
               pages |-> <<>>, columns |-> <<>>, rows |-> <<>>]
FileBlank == [name |-> "e.pdf", ext |-> ".pdf", readable |-> TRUE,
              pages |-> << <<" ">> >>, columns |-> <<>>, rows |-> <<>>]

Files == {FilePdf, FileCsv, FileTxt, FileBroken, FileBlank}

\* What is uploaded at once: nothing, one file, two files in either order
Singles == { <<f>> : f \in Files }
Pairs == { <<f, g>> : f, g \in Files } \ { <<f, f>> : f \in Files }

NoDocument == [content |-> <<>>, metadata |-> NoMeta]

\* _load_pdf: the non-blank pages joined by a blank line
LoadPdf(f) ==
    IF ~f.readable THEN [ok |-> FALSE, doc |-> NoDocument]
    ELSE LET text_content == SelectSeq(f.pages, LAMBDA page_text : ~IsBlank(page_text))
             full_text == Join(text_content, <<"\n", "\n">>)
         IN  [ok |-> TRUE,
              doc |-> [content |-> full_text,
                       metadata |-> [source |-> PyStr(f.name),
                                     file_type |-> PyStr("pdf"),
                                     num_pages |-> PyInt(Len(f.pages)),
                                     total_chars |-> PyInt(Len(full_text))]]]

\* _load_csv: "col: val" cells joined by " | ", rows joined by a newline
LoadCsv(f) ==
    IF ~f.readable THEN [ok |-> FALSE, doc |-> NoDocument]
    ELSE LET row_text(row) ==
                 Join([j \in 1..Len(f.columns) |->
                          <<f.columns[j], ":", " ">> \o row[j]],
                      <<" ", "|", " ">>)
             text_rows == [i \in 1..Len(f.rows) |-> row_text(f.rows[i])]
             full_text == Join(text_rows, <<"\n">>)
         IN  [ok |-> TRUE,
              doc |-> [content |-> full_text,
                       metadata |-> [source |-> PyStr(f.name),
                                     file_type |-> PyStr("csv"),
                                     num_rows |-> PyInt(Len(f.rows)),
                                     num_columns |-> PyInt(Len(f.columns)),
                                     columns |-> PyList(f.columns),
                                     total_chars |-> PyInt(Len(full_text))]]]

\* load_document: by extension; anything else raises ValueError
LoadDocument(f) ==
    IF f.ext = ".pdf" THEN LoadPdf(f)
    ELSE IF f.ext = ".csv" THEN LoadCsv(f)
    ELSE [ok |-> FALSE, doc |-> NoDocument]

\* A plausible slip: the first file that fails to load ends the loop.
RECURSIVE LoadAllUntilFailure(_)
LoadAllUntilFailure(file_paths) ==
    IF file_paths = <<>> THEN [documents |-> <<>>, reported |-> <<>>]
    ELSE LET r == LoadDocument(Head(file_paths))
             rest == LoadAllUntilFailure(Tail(file_paths))
         IN  IF r.ok
             THEN [documents |-> <<r.doc>> \o rest.documents,
                   reported |-> rest.reported]
             ELSE [documents |-> <<>>, reported |-> <<Head(file_paths).name>>]

\* process_documents, the loading loop: a file that raises is reported with
\* st.error and left out, the loop goes on
RECURSIVE LoadAll(_)
LoadAll(file_paths) ==
    IF file_paths = <<>> THEN [documents |-> <<>>, reported |-> <<>>]
    ELSE LET r == LoadDocument(Head(file_paths))
             rest == LoadAll(Tail(file_paths))
         IN  IF r.ok
             THEN [documents |-> <<r.doc>> \o rest.documents,
                   reported |-> rest.reported]
             ELSE [documents |-> rest.documents,
                   reported |-> <<Head(file_paths).name>> \o rest.reported]

\* ------------------------------------------------------------ ingestion
\* A Python str as one TLA+ string
RECURSIVE AsString(_)
AsString(t) == IF t = <<>> THEN "" ELSE Head(t) \o AsString(Tail(t))

\* chunk_documents, all_chunks.extend(chunks): c is what chunk_text returned
\* for the first document, rest what the loop makes of the others
Extend(c, rest) ==
    [err |-> c.status = "error" \/ rest.err,
     chunks |-> [i \in 1..Len(c.chunks) |->
                    [text |-> AsString(c.chunks[i].text),
                     metadata |-> c.chunks[i].metadata]]
                \o rest.chunks]

\* chunk_documents: the chunks of every document, in document order
RECURSIVE ChunkDocuments(_, _, _)
ChunkDocuments(documents, chunk_size, chunk_overlap) ==
    IF documents = <<>> THEN [err |-> FALSE, chunks |-> <<>>]
    ELSE Extend(ChunkTextCall(Head(documents).content, Head(documents).metadata,
                              chunk_size, chunk_overlap),
                ChunkDocuments(Tail(documents), chunk_size, chunk_overlap))

\* The embedding service behind embed_documents: attempts[i] is what the
\* i-th embed_documents call of one embed_chunks would return, vectors one
\* per text or a failure raised.
ReplyVecs == {0, 1}
Replies(n) ==
    {NoReply} \cup {[ok |-> TRUE, vectors |-> v] : v \in [1..n -> ReplyVecs]}
Attempts(n) ==
    { <<first, NoReply>> : first \in Replies(n) }
    \cup { <<NoReply, [ok |-> TRUE, vectors |-> [i \in 1..n |-> 0]]>> }

\* A plausible slip: a failed request is sent once more.
EmbedTextsRetrying(texts, attempts) ==
    IF attempts[1].ok
    THEN [ok |-> TRUE, vectors |-> attempts[1].vectors, requests |-> <<texts>>]
    ELSE [ok |-> attempts[2].ok, vectors |-> attempts[2].vectors,
          requests |-> <<texts, texts>>]

\* embed_texts: one embed_documents request; its failure is raised
EmbedTexts(texts, attempts) ==
    [ok |-> attempts[1].ok, vectors |-> attempts[1].vectors,
     requests |-> <<texts>>]

\* A plausible slip: the embedding is stored in the chunk itself and the
\* chunk is appended.
EmbedPassInPlace(h, i, embedding) ==
    [chunks |-> [h.chunks EXCEPT ![i] =
                    [text |-> h.chunks[i].text, embedding |-> embedding,
                     metadata |-> h.chunks[i].metadata]],
     result |-> Append(h.result,
                       [text |-> h.chunks[i].text, embedding |-> embedding,
                        metadata |-> h.chunks[i].metadata])]

\* embed_chunks, one pass of the zip loop over h, the input list and the
\* result list as they stand: a new dict of the chunk's text, the vector
\* and the chunk's metadata is appended to result; no key of the chunk is
\* assigned
EmbedPass(h, i, embedding) ==
    [chunks |-> h.chunks,
     result |-> Append(h.result,
                       [text |-> h.chunks[i].text, embedding |-> embedding,
                        metadata |-> h.chunks[i].metadata])]

\* embed_chunks, the zip loop from pass i on: zip stops at the shorter of
\* the two lists
RECURSIVE EmbedLoop(_, _, _)
EmbedLoop(h, embeddings, i) ==
    IF i > Min(Len(h.chunks), Len(embeddings)) THEN h
    ELSE EmbedLoop(EmbedPass(h, i, embeddings[i]), embeddings, i + 1)

\* embed_chunks after embed_texts returned e: left is the input list as the
\* call leaves it
EmbedZipped(chunks, e, h) ==
    [ok |-> e.ok, requests |-> e.requests, left |-> h.chunks, out |-> h.result]

\* embed_chunks: the texts go out in one request, whose failure is raised
EmbedChunks(chunks, attempts) ==
    LET texts == [i \in 1..Len(chunks) |-> chunks[i].text]
        e == EmbedTexts(texts, attempts)
    IN  EmbedZipped(chunks, e,
                    IF e.ok
                    THEN EmbedLoop([chunks |-> chunks, result |-> <<>>],
                                   e.vectors, 1)
                    ELSE [chunks |-> chunks, result |-> <<>>])

\* process_documents, the chunking step on the loaded documents l: skipped
\* when nothing was loaded; the splitter rejects chunk_overlap > chunk_size
Chunked(l, cfg, c) ==
    [documents |-> l.documents, reported |-> l.reported,
     built |-> cfg.chunk_overlap <= cfg.chunk_size,
     err |-> c.err, chunks |-> c.chunks]

PreparedFrom(l, cfg) ==
    Chunked(l, cfg,
            IF l.documents # <<>> /\ cfg.chunk_overlap <= cfg.chunk_size
            THEN ChunkDocuments(l.documents, cfg.chunk_size, cfg.chunk_overlap)
            ELSE [err |-> FALSE, chunks |-> <<>>])

\* process_documents up to the embedding request: loading and chunking
Prepared(file_paths, cfg) == PreparedFrom(LoadAll(file_paths), cfg)

\* process_documents up to the embedding request, called on a collection
\* of pre records: p is what loading and chunking gave. False when nothing
\* was loaded; an exception of chunking leaves through the caller and ends
\* the script run; otherwise the run stands before embed_documents.
ProcessLoaded(file_paths, p, pre) ==
    LET seen == [Over EXCEPT !.file_paths = file_paths,
                              !.documents = p.documents, !.reported = p.reported]
    IN  IF p.documents = <<>>
        THEN [seen EXCEPT !.status = "false", !.at = "stats"]
        ELSE IF ~p.built \/ p.err
        THEN [seen EXCEPT !.stage = "chunking", !.chunking = p.documents]
        ELSE [seen EXCEPT !.status = "running", !.at = "embed", !.pre = pre,
                          !.chunking = p.documents, !.chunks = p.chunks]

\* process_documents(file_paths) up to the embedding request
ProcessDocumentsCall(file_paths, cfg, pre) ==
    ProcessLoaded(file_paths, Prepared(file_paths, cfg), pre)

\* process_documents from the return of embed_chunks on, up to add_chunks:
\* r is the run so far, e what embed_chunks returned. Its exception leaves
\* through the caller and ends the script run; an empty list makes
\* add_chunks return at once and process_documents return True; otherwise
\* add_chunks stands before its first count().
ProcessEmbedded(r, attempts, e) ==
    IF ~e.ok
    THEN [r EXCEPT !.at = "end", !.status = "raised", !.stage = "embedding",
                   !.pre = 0, !.attempts = attempts, !.requests = e.requests,
                   !.chunks_left = e.left]
    ELSE [r EXCEPT !.status = IF e.out = <<>> THEN "true" ELSE "running",
                   !.at = IF e.out = <<>> THEN "stats" ELSE "loop",
                   !.pre = 0, !.attempts = attempts, !.requests = e.requests,
                   !.embedded = e.out, !.chunks_left = e.left]

\* ------------------------------------------------------------ the session
\* Every event reruns the script top to bottom for one session: the process
\* button's block, the statistics read, the reset button's block, the chat.
\* An exception ends the rerun where it is raised. Each session's script
\* runs in a thread of its own: a step of a run is one call that leaves the
\* process (a library call on the shared collection, or the reply of the
\* embedding or the generation service) together with the session's own
\* work that follows it, up to the next such call; the other sessions'
\* steps fall in between.

\* The statistics block: get_stats on the session's store when it has one
StatsRead(s) ==
    IF handle[s] = 0 THEN "none"
    ELSE IF CountRaises(handle[s]) THEN "raised" ELSE "ok"

\* The chunks session t's run in flight is still to add
PendingChunks(t) ==
    IF run[t].at \in {"count", "create"}
    THEN Len(Prepared(run[t].file_paths, env).chunks)
    ELSE IF run[t].at = "embed" THEN Len(run[t].chunks)
    ELSE IF run[t].at \in {"loop", "add"} THEN Len(run[t].embedded)
    ELSE 0

Pending ==
    LET f[S \in SUBSET Objs] ==
            IF S = {} THEN 0
            ELSE LET o == CHOOSE x \in S : TRUE
                 IN  PendingChunks(o) + f[S \ {o}]
    IN  f[Objs]

\* The script run of session s goes on as r
Runs(s, r) == run' = [run EXCEPT ![s] = r]

\* The process button's block from process_documents on: r is what
\* process_documents has done so far. documents_loaded is set when it has
\* returned True.
Ingest(s, r) ==
    /\ Runs(s, r)
    /\ documents_loaded' =
           IF r.status = "true"
           THEN [documents_loaded EXCEPT ![s] = TRUE]
           ELSE documents_loaded

\* The process button. Without files: the error, then the statistics block.
\* With files: initialize_rag_system (the embedding generator, built with the
\* API key, and for a session without a store VectorStore() up to its
\* get_collection), and for a session with a store process_documents up to
\* the embedding request. The press is taken while the collection has
\* room for the chunks of the files.
ProcessButton(s, uploaded, api_key, room) ==
    /\ run[s].at = "idle"
    /\ Len(recs) + Pending + Len(Prepared(uploaded, env).chunks) <= room
    /\ IF uploaded = <<>>
       THEN /\ Runs(s, NoRun)
            /\ UNCHANGED <<embedding_generator, documents_loaded>>
       ELSE IF ~embedding_generator[s] /\ ~api_key
       THEN /\ Runs(s, NoRun)
            /\ UNCHANGED <<embedding_generator, documents_loaded>>
       ELSE /\ embedding_generator' = [embedding_generator EXCEPT ![s] = TRUE]
            /\ IF handle[s] = 0
               THEN /\ Runs(s, [NoRun EXCEPT !.status = "running",
                                             !.at = IF GetCollection # 0
                                                    THEN "count" ELSE "create",
                                             !.got = GetCollection,
                                             !.file_paths = uploaded])
                    /\ UNCHANGED documents_loaded
               ELSE Ingest(s, ProcessDocumentsCall(uploaded, env, Len(recs)))
    /\ UNCHANGED <<storeVars, chat_history, env>>
    /\ UNCHANGED <<last, concVars, chunkVars>>

\* VectorStore() in initialize_rag_system, the print's count(): the session
\* has its store and goes on with process_documents up to the embedding
\* request, or the bare except takes over
InitializeCount(s) ==
    /\ run[s].at = "count"
    /\ IF CountRaises(run[s].got)
       THEN /\ Runs(s, [run[s] EXCEPT !.at = "create", !.got = 0])
            /\ UNCHANGED <<handle, documents_loaded>>
       ELSE /\ handle' = [handle EXCEPT ![s] = run[s].got]
            /\ Ingest(s, ProcessDocumentsCall(run[s].file_paths, env, Len(recs)))
    /\ UNCHANGED <<collUid, uidCount, recs>>
    /\ UNCHANGED <<embedding_generator, chat_history, env>>
    /\ UNCHANGED <<last, concVars, chunkVars>>

\* VectorStore() in initialize_rag_system, create_collection: the exception
\* ends the script run and leaves the session without a store; otherwise
\* the session has its store on the new collection and goes on with
\* process_documents up to the embedding request
InitializeCreate(s) ==
    /\ run[s].at = "create"
    /\ IF CreateRaises
       THEN /\ Runs(s, NoRun)
            /\ UNCHANGED <<storeVars, documents_loaded>>
       ELSE /\ uidCount < MaxUid
            /\ uidCount' = uidCount + 1
            /\ collUid' = uidCount + 1
            /\ recs' = <<>>
            /\ handle' = [handle EXCEPT ![s] = uidCount + 1]
            /\ Ingest(s, ProcessDocumentsCall(run[s].file_paths, env, 0))
    /\ UNCHANGED <<embedding_generator, chat_history, env>>
    /\ UNCHANGED <<last, concVars, chunkVars>>

\* process_documents, the reply of embed_documents to embed_chunks, and
\* what follows it up to add_chunks
Embedding(s, attempts) ==
    /\ run[s].at = "embed"
    /\ Ingest(s, ProcessEmbedded(run[s], attempts,
                                 EmbedChunks(run[s].chunks, attempts)))
    /\ UNCHANGED <<storeVars, embedding_generator, chat_history, env>>
    /\ UNCHANGED <<last, concVars, chunkVars>>

\* add_chunks, one pass of the id loop: count() raises when the collection
\* is gone, and the exception ends the script run
AddLoop(s) ==
    /\ run[s].at = "loop"
    /\ Runs(s, IF CountRaises(handle[s])
               THEN NoRun
               ELSE [run[s] EXCEPT
                        !.ids = Append(@, ChunkId(CollectionCount(s), Len(@))),
                        !.at = IF Len(run[s].ids) + 1 = Len(run[s].embedded)
                               THEN "add" ELSE "loop"])
    /\ UNCHANGED <<storeVars, embedding_generator, documents_loaded,
                   chat_history, env>>
    /\ UNCHANGED <<last, concVars, chunkVars>>

\* The records add_chunks hands to collection.add
NewRecords(ids, batch) ==
    [i \in 1..Len(batch) |-> NewRecord(ids[i], batch[i])]

\* add_chunks, collection.add
AddLand(s) ==
    /\ run[s].at = "add"
    /\ IF ~IsLive(s)
       THEN /\ Runs(s, NoRun)
            /\ UNCHANGED recs
       ELSE /\ recs' = CollectionAdd(recs, NewRecords(run[s].ids,
                                                      run[s].embedded)).recs
            /\ Runs(s, [run[s] EXCEPT !.at = "added",
                                      !.wrote = SubSeq(recs', Len(recs) + 1,
                                                       Len(recs'))])
    /\ UNCHANGED <<collUid, uidCount, handle>>
    /\ UNCHANGED <<embedding_generator, documents_loaded, chat_history, env>>
    /\ UNCHANGED <<last, concVars, chunkVars>>

\* add_chunks, the count() of its last print; then process_documents
\* returns True and documents_loaded is set
AddedCount(s) ==
    /\ run[s].at = "added"
    /\ IF CountRaises(handle[s])
       THEN /\ Runs(s, NoRun)
            /\ UNCHANGED documents_loaded
       ELSE /\ Runs(s, [run[s] EXCEPT !.at = "stats", !.status = "true"])
            /\ documents_loaded' = [documents_loaded EXCEPT ![s] = TRUE]
    /\ UNCHANGED <<storeVars, embedding_generator, chat_history, env>>
    /\ UNCHANGED <<last, concVars, chunkVars>>

\* The statistics block that ends the process button's script run, with
\* the number of records shown or with the exception of get_stats
Statistics(s) ==
    /\ run[s].at = "stats"
    /\ Runs(s, NoRun)
    /\ UNCHANGED <<storeVars, embedding_generator, documents_loaded,
                   chat_history, env>>
    /\ UNCHANGED <<last, concVars, chunkVars>>

\* The exception of process_documents ends the script run
ScriptEnds(s) ==
    /\ run[s].at = "end"
    /\ Runs(s, NoRun)
    /\ UNCHANGED <<storeVars, embedding_generator, documents_loaded,
                   chat_history, env>>
    /\ UNCHANGED <<last, concVars, chunkVars>>

\* The reset button: the statistics block runs first; a session with a
\* store then stands before delete_collection.
ResetButton(s) ==
    /\ run[s].at = "idle"
    /\ Runs(s, IF StatsRead(s) = "ok"
               THEN [NoRun EXCEPT !.status = "running", !.at = "delete"]
               ELSE NoRun)
    /\ UNCHANGED <<storeVars, embedding_generator, documents_loaded,
                   chat_history, env>>
    /\ UNCHANGED <<last, concVars, chunkVars>>

\* The reset button, delete_collection: it drops the collection that
\* carries the name now and the session state is cleared, or it raises
\* because there is none and the session state stays as it is
ResetDelete(s) ==
    /\ run[s].at = "delete"
    /\ IF collUid = 0
       THEN /\ Runs(s, NoRun)
            /\ UNCHANGED <<storeVars, documents_loaded, chat_history>>
       ELSE /\ collUid' = 0
            /\ recs' = <<>>
            /\ handle' = [handle EXCEPT ![s] = 0]
            /\ documents_loaded' = [documents_loaded EXCEPT ![s] = FALSE]
            /\ chat_history' = [chat_history EXCEPT ![s] = <<>>]
            /\ Runs(s, NoRun)
            /\ UNCHANGED uidCount
    /\ UNCHANGED <<embedding_generator, env>>
    /\ UNCHANGED <<last, concVars, chunkVars>>

\* The messages all sessions hold together
MessageCount ==
    LET f[S \in SUBSET Objs] ==
            IF S = {} THEN 0
            ELSE LET o == CHOOSE x \in S : TRUE
                 IN  Len(chat_history[o]) + f[S \ {o}]
    IN  f[Objs]

\* The dicts appended to chat_history; the user's has no sources key, read
\* here as no sources
UserMessage(prompt) == [role |-> "user", content |-> prompt, sources |-> <<>>]
AssistantMessage(answer, sources) ==
    [role |-> "assistant", content |-> answer, sources |-> sources]

\* A plausible slip: the earlier turns of the session are sent along.
RagRequestWithHistory(s, user_query, q) ==
    LET results == SearchCall(q, TopK)
        r == RagResponse(user_query, results, "")
    IN  [retrieval |-> <<[embedding |-> q, top_k |-> TopK]>>,
         results |-> results,
         gen |-> [i \in 1..Len(r.gen) |->
                     [r.gen[i] EXCEPT !.query =
                         ToString(Len(chat_history[s])) \o user_query]]]

\* get_rag_response(user_query) in session s from its search up to the
\* generation request: q is the vector the service returned for the query.
\* Of the session state it reads embedding_generator and vector_store only.
RagRequest(s, user_query, q) ==
    LET results == SearchCall(q, TopK)
        r == RagResponse(user_query, results, "")
    IN  [retrieval |-> <<[embedding |-> q, top_k |-> TopK]>>,
         results |-> results,
         gen |-> r.gen]

\* The chat input, shown while documents_loaded: the statistics block runs
\* first; the user message is appended and get_rag_response sends the query
\* to the embedding service.
ChatInput(s, prompt) ==
    /\ run[s].at = "idle"
    /\ documents_loaded[s]
    /\ MessageCount < MaxHistory
    /\ IF StatsRead(s) = "raised"
       THEN /\ Runs(s, NoRun)
            /\ UNCHANGED chat_history
       ELSE /\ chat_history' = [chat_history EXCEPT ![s] =
                                   Append(@, UserMessage(prompt))]
            /\ Runs(s, [NoRun EXCEPT !.status = "running",
                                     !.at = "embed_query",
                                     !.prompt = prompt])
    /\ UNCHANGED <<storeVars, embedding_generator, documents_loaded, env>>
    /\ UNCHANGED <<last, concVars, chunkVars>>

\* get_rag_response, the reply of embed_query: embedded is FALSE when the
\* request fails, and the exception ends the script run with the user
\* message alone in the history. Otherwise get_rag_response stands before
\* its search with the vector q.
ChatEmbedded(s, embedded, q) ==
    /\ run[s].at = "embed_query"
    /\ Runs(s, IF embedded
               THEN [run[s] EXCEPT !.at = "search", !.q = q]
               ELSE NoRun)
    /\ UNCHANGED <<storeVars, embedding_generator, documents_loaded,
                   chat_history, env>>
    /\ UNCHANGED <<last, concVars, chunkVars>>

\* get_rag_response after its search returned r: with nothing retrieved the
\* refusal is returned and appended as the assistant message; otherwise the
\* generation request goes out
ChatRetrieved(s, r) ==
    IF r.results = <<>>
    THEN /\ Runs(s, NoRun)
         /\ chat_history' =
                [chat_history EXCEPT ![s] =
                    Append(@, AssistantMessage(
                                 RagResponse(run[s].prompt, r.results, "").answer,
                                 RagResponse(run[s].prompt, r.results, "").sources))]
    ELSE /\ Runs(s, [run[s] EXCEPT !.at = "generate",
                                   !.retrieval = r.retrieval,
                                   !.results = r.results,
                                   !.gen = r.gen])
         /\ UNCHANGED chat_history

\* get_rag_response, the search: it raises on a session without a store or
\* with one whose collection is gone, and the exception ends the script run
ChatSearch(s) ==
    /\ run[s].at = "search"
    /\ IF ~IsLive(s)
       THEN /\ Runs(s, NoRun)
            /\ UNCHANGED chat_history
       ELSE ChatRetrieved(s, RagRequest(s, run[s].prompt, run[s].q))
    /\ UNCHANGED <<storeVars, embedding_generator, documents_loaded, env>>
    /\ UNCHANGED <<last, concVars, chunkVars>>

\* get_rag_response, the reply of client.chat.completions.create, and the
\* chat handler's append: generated is FALSE when the request fails, and
\* the exception ends the script run with the user message alone in the
\* history. Otherwise the completion and the results of the search, as they
\* were retrieved, are appended as the assistant message.
ChatGenerated(s, completion, generated) ==
    /\ run[s].at = "generate"
    /\ Runs(s, NoRun)
    /\ chat_history' =
           IF generated
           THEN [chat_history EXCEPT ![s] =
                    Append(@, AssistantMessage(
                                 RagResponse(run[s].prompt, run[s].results,
                                             completion).answer,
                                 RagResponse(run[s].prompt, run[s].results,
                                             completion).sources))]
           ELSE chat_history
    /\ UNCHANGED <<storeVars, embedding_generator, documents_loaded, env>>
    /\ UNCHANGED <<last, concVars, chunkVars>>

\* The sessions' service: it fails or answers with the vector 0 for
\* every text
ZeroAttempts(n) ==
    { <<[ok |-> TRUE, vectors |-> [i \in 1..n |-> 0]], NoReply>>,
      <<NoReply, NoReply>> }

\* What a session uploads when only ingestion is studied: the first any one
\* or two files, the others a.pdf
Uploads(s) == IF s = 1 THEN Singles \cup Pairs ELSE { <<FilePdf>> }

\* The replies of the embedding service to the run of session s in flight:
\* to the first session any reply, to the others the vector 0 or a failure
AttemptsFor(s) ==
    IF s = 1 THEN Attempts(Len(run[s].chunks))
    ELSE ZeroAttempts(Len(run[s].chunks))

\* Ingestion on its own, either environment, the API key set: every
\* session's first press of the process button, the script runs overlapping.
NextIngest ==
    \/ \E s \in Objs : \E uploaded \in Uploads(s) :
          /\ ~embedding_generator[s]
          /\ ProcessButton(s, uploaded, TRUE, MaxRecs)
    \/ \E s \in Objs : InitializeCount(s)
    \/ \E s \in Objs : InitializeCreate(s)
    \/ \E s \in Objs : \E attempts \in AttemptsFor(s) : Embedding(s, attempts)
    \/ \E s \in Objs : AddLoop(s)
    \/ \E s \in Objs : AddLand(s)
    \/ \E s \in Objs : AddedCount(s)
    \/ \E s \in Objs : Statistics(s)
    \/ \E s \in Objs : ScriptEnds(s)

SpecIngest == InitEnv /\ [][NextIngest]_vars

\* The sessions: one file at a time, the default environment, services
\* that fail or answer (the embedding service with the vector 0), one
\* question
NextApp ==
    \/ \E s \in Objs, uploaded \in {<<>>, <<FilePdf>>, <<FileTxt>>} :
        \E api_key \in (IF embedding_generator[s] \/ uploaded = <<>>
                         THEN {TRUE} ELSE BOOLEAN) :
            ProcessButton(s, uploaded, api_key, MaxLoaded)
    \/ \E s \in Objs : InitializeCount(s)
    \/ \E s \in Objs : InitializeCreate(s)
    \/ \E s \in Objs :
        \E attempts \in ZeroAttempts(Len(run[s].chunks)) : Embedding(s, attempts)
    \/ \E s \in Objs : AddLoop(s)
    \/ \E s \in Objs : AddLand(s)
    \/ \E s \in Objs : AddedCount(s)
    \/ \E s \in Objs : Statistics(s)
    \/ \E s \in Objs : ScriptEnds(s)
    \/ \E s \in Objs : ResetButton(s)
    \/ \E s \in Objs : ResetDelete(s)
    \/ \E s \in Objs, prompt \in {"q0"} : ChatInput(s, prompt)
    \/ \E s \in Objs, embedded \in BOOLEAN : ChatEmbedded(s, embedded, 0)
    \/ \E s \in Objs : ChatSearch(s)
    \/ \E s \in Objs, completion \in Answers, generated \in BOOLEAN :
            ChatGenerated(s, completion, generated)

SpecApp == Init /\ [][NextApp]_vars

\* ================================================================== claims

\* C1: with calls running one after another, the stored ids are pairwise
\* distinct and grow with insertion order, and every id a successful add_chunks
\* assigned is stored behind (and so is larger than) all ids stored before it.
C1_IdsDistinctAndIncreasing ==
    /\ \A i, j \in 1..Len(recs) :
          i < j => CounterOf(recs[i].id) < CounterOf(recs[j].id)
    /\ (last.op = "add" /\ last.status = "ok") =>
          /\ Len(recs) = last.pre + last.n
          /\ \A i \in 1..last.n : recs[last.pre + i].id = last.ids[i]

\* A second (or later) call has added to a collection that held records.
C1_Witness ==
    /\ last.op = "add" /\ last.status = "ok"
    /\ last.pre >= 1 /\ last.n >= 2
    /\ Len(recs) = last.pre + last.n

\* C2: a search that returns yields exactly min(k, count) results in
\* non-decreasing distance, none for an empty collection, and a search on a
\* live collection never fails.
C2_SearchLengthAndOrder ==
    last.op = "search" =>
        /\ last.status = "ok" =>
              /\ Len(last.out) = Min(last.k, last.pre)
              /\ \A i, j \in 1..Len(last.out) :
                    i < j => last.out[i].distance <= last.out[j].distance
              /\ last.pre = 0 => last.out = <<>>
        /\ last.status = "error" => ~IsLive(last.o)

\* A search cut to k results whose ranking differs from the insertion order.
C2_Witness ==
    /\ last.op = "search" /\ last.status = "ok"
    /\ last.k = 2 /\ last.pre = 3 /\ Len(last.out) = 2
    /\ last.out[1].distance < last.out[2].distance
    /\ CounterOf(last.out[1].id) > CounterOf(last.out[2].id)

\* C3: when retrieval returns nothing, get_rag_response returns the refusal
\* with no sources and issues no generation request; every generation request
\* it ever issues, answered yet or not, carries at least one retrieved text.
C3_RefusalOnEmptyRetrieval ==
    /\ last.op = "rag" =>
           /\ (last.status = "ok" /\ last.input = <<>>) =>
                 /\ last.answer = Refusal
                 /\ last.out = <<>>
                 /\ last.gen = <<>>
           /\ \A i \in 1..Len(last.gen) : last.gen[i].nctx >= 1
           /\ last.k = 0 => (last.status = "error" /\ last.gen = <<>>)
    /\ \A o \in Objs :
           /\ pc[o] = "generate" =>
                 /\ rag[o].results # <<>>
                 /\ \A i \in 1..Len(rag[o].gen) : rag[o].gen[i].nctx >= 1
           /\ pc[o] # "generate" => rag[o].gen = <<>>

\* A refusal on a collection re-created after a delete.
C3_Witness ==
    /\ last.op = "rag" /\ last.status = "ok"
    /\ last.input = <<>> /\ last.answer = Refusal
    /\ uidCount >= 2

\* C4: add_chunks with a non-empty batch on an object whose collection was
\* deleted fails, stores no record and creates no collection.
C4_AddAfterDeleteFails ==
    [][ \A o \in Objs :
          (handle[o] # 0 /\ ~IsLive(o)
             /\ last'.op = "add" /\ last'.o = o /\ last'.n >= 1)
          => /\ last'.status = "error"
             /\ recs' = recs
             /\ collUid' = collUid
             /\ uidCount' = uidCount ]_vars

\* A failed add_chunks on the deleted, not re-created collection.
C4_Witness ==
    /\ last.op = "add" /\ last.status = "error" /\ last.n >= 1
    /\ handle[last.o] # 0 /\ collUid = 0 /\ uidCount >= 1

\* C7: add_chunks on a live collection appends exactly its n records (n = 0:
\* a warning, no error, nothing stored), search, get_stats and the answerer
\* leave the records alone, and the count drops only in delete_collection.
C7_AppendOnly ==
    [][ /\ last'.op \in {"search", "stats", "rag"} =>
              (recs' = recs /\ collUid' = collUid)
        /\ (last'.op = "add" /\ IsLive(last'.o)) =>
              /\ last'.status # "error"
              /\ Len(recs') = Len(recs) + last'.n
              /\ SubSeq(recs', 1, Len(recs)) = recs
        /\ (last'.op = "add" /\ last'.n = 0) =>
              (last'.status = "warn" /\ recs' = recs)
        /\ Len(recs') < Len(recs) => last'.op = "delete" ]_vars

\* An empty add_chunks on a collection that holds records.
C7_Witness ==
    /\ last.op = "add" /\ last.n = 0 /\ last.status = "warn"
    /\ IsLive(last.o) /\ Len(recs) >= 2

\* C8: ids come from count() reads that reserve nothing: while no add has
\* landed since two overlapping calls began, each has computed the ids
\* count, count + 1, ... and so the same id at every index both have reached.
C8_OverlappingCallsShareIds ==
    \A p, q \in Objs :
        (p # q /\ InFlight(p) /\ InFlight(q) /\ IsLive(p) /\ IsLive(q)
           /\ ~landed[p] /\ ~landed[q])
        => \A j \in 1..Min(Len(bids[p]), Len(bids[q])) :
              /\ bids[p][j] = bids[q][j]
              /\ bids[p][j] = IdOf(Len(recs) + j - 1)

\* Both calls are about to add, with one id computed for two different records.
C8_Witness ==
    /\ pc[1] = "add" /\ pc[2] = "add"
    /\ \E j \in 1..Min(Len(bids[1]), Len(bids[2])) :
          /\ bids[1][j] = bids[2][j]
          /\ bbatch[1][j] # bbatch[2][j]

\* C10: every stored metadata value is a string, number or boolean; an
\* add_chunks stores each record with the keys it was given, scalar values
\* unchanged and the others as their string form.
C10_MetadataScalar ==
    /\ \A i \in 1..Len(recs) : \A key \in DOMAIN recs[i].metadata :
          IsScalar(recs[i].metadata[key])
    /\ (last.op = "add" /\ last.status = "ok") =>
          \A i \in 1..last.n :
             LET given == last.input[i].metadata
                 stored == recs[last.pre + i].metadata
             IN  /\ DOMAIN stored = DOMAIN given
                 /\ \A key \in DOMAIN given :
                       /\ IsScalar(given[key]) => stored[key] = given[key]
                       /\ ~IsScalar(given[key]) => stored[key].tag = "str"
                       /\ given[key] = PyList(<<"x", "y">>) =>
                             stored[key] = PyStr("['x', 'y']")
                       /\ given[key] = PyNone => stored[key] = PyStr("None")

\* The CSV loader's column list is stored as its string form.
C10_Witness ==
    /\ last.op = "add" /\ last.status = "ok"
    /\ \E i \in 1..Len(recs) :
          /\ "columns" \in DOMAIN recs[i].metadata
          /\ recs[i].metadata["columns"] = PyStr("['x', 'y']")
          /\ recs[i].metadata["num_rows"] = PyInt(2)

\* C5: chunk i (from 0, left to right) of a chunk_text result carries the
\* index i, the number of chunks returned and the length of its own text,
\* whatever document metadata was passed.
C5_ChunkIndexIsPosition ==
    cres.status = "ok" =>
        \A i \in 1..Len(cres.chunks) :
            /\ cres.chunks[i].metadata["chunk_id"] = PyInt(i - 1)
            /\ cres.chunks[i].metadata["total_chunks"] = PyInt(Len(cres.chunks))
            /\ cres.chunks[i].metadata["chunk_size"] = PyInt(Len(cres.chunks[i].text))

\* C6: under 0 <= chunk_overlap < chunk_size, chunk_text returns (it does not
\* raise) and every chunk it returns is non-empty and at most chunk_size long.
C6_ChunksWithinSize ==
    (chunker.state = "ready"
       /\ 0 <= chunker.chunk_overlap
       /\ chunker.chunk_overlap < chunker.chunk_size)
    => /\ cres.status # "error"
       /\ \A i \in 1..Len(cres.chunks) :
             /\ Len(cres.chunks[i].text) >= 1
             /\ Len(cres.chunks[i].text) <= chunker.chunk_size

\* One token with no separator in it, longer than chunk_size, cut by the
\* character fallback into overlapping chunks of full size.
C6_Witness ==
    /\ cres.status = "ok"
    /\ cres.text = <<"a", "a", "a", "a">>
    /\ chunker.chunk_size = 2 /\ chunker.chunk_overlap = 1
    /\ Len(cres.chunks) = 3
    /\ \A i \in 1..3 : Len(cres.chunks[i].text) = 2

\* C9: a TextChunker exists only under 0 <= chunk_overlap < chunk_size.
C9_InvalidConfigRejected ==
    chunker.state = "ready" =>
        /\ 0 <= chunker.chunk_overlap
        /\ chunker.chunk_overlap < chunker.chunk_size
\* The first n retrieved texts, each after a blank line but the first
RECURSIVE ContextUpTo(_, _)
ContextUpTo(results, n) ==
    IF n = 1 THEN results[1].text
    ELSE ContextUpTo(results, n - 1) \o "\n\n" \o results[n].text

\* C14: when retrieval returns a non-empty list, get_rag_response issues exactly
\* one generation request, whose context is the retrieved texts in ranking order
\* joined by a blank line, and returns the completion unmodified together with
\* exactly the list the context was built from, whatever the other session
\* has done to the collection while the request was out. A request that fails
\* is not sent again.
C14_OneGroundedRequest ==
    /\ (last.op = "rag" /\ last.input # <<>>) =>
           /\ Len(last.gen) = 1
           /\ last.gen[1].context = ContextUpTo(last.input, Len(last.input))
           /\ last.gen[1].query = last.query
           /\ last.status = "ok" =>
                 /\ last.answer = last.completion
                 /\ last.out = last.input
           /\ \A i \in 1..(Len(last.input) - 1) :
                 last.input[i].distance <= last.input[i + 1].distance
    /\ \A o \in Objs : rag[o].results # <<>> =>
           /\ pc[o] = "generate"
           /\ Len(rag[o].gen) = 1
           /\ rag[o].gen[1].context =
                 ContextUpTo(rag[o].results, Len(rag[o].results))
           /\ rag[o].gen[1].query = rag[o].query

\* An answer grounded in two retrieved texts at different distances, returned
\* after the other session has deleted the collection they came from.
C14_Witness ==
    /\ last.op = "rag" /\ last.status = "ok"
    /\ Len(last.input) >= 2
    /\ last.input[1].distance < last.input[2].distance
    /\ last.input[1].text # last.input[2].text
    /\ Len(last.gen) = 1
    /\ last.answer = last.completion
    /\ collUid = 0 /\ last.pre = 0

\* The script runs
Records == {run[s] : s \in Objs}

\* The run r has been through embed_chunks with success
Embedded(r) == r.status = "true" \/ r.at \in {"loop", "add", "added"}

\* C11: embed_chunks on N chunks returns N embedded chunks in input order, the
\* i-th carrying text and metadata of chunk i and the vector the service
\* returned for text i, and leaves its input as it was: the list the chunker
\* returned, each chunk with its two keys.
C11_EmbeddedChunksMatchInput ==
    \A r \in Records : Embedded(r) =>
        /\ Len(r.requests) = 1
        /\ r.requests[1] = [i \in 1..Len(r.chunks) |-> r.chunks[i].text]
        /\ Len(r.embedded) = Len(r.chunks)
        /\ \A i \in 1..Len(r.chunks) :
              /\ DOMAIN r.embedded[i] = {"text", "embedding", "metadata"}
              /\ r.embedded[i].text = r.chunks[i].text
              /\ r.embedded[i].metadata = r.chunks[i].metadata
              /\ r.embedded[i].embedding = r.attempts[1].vectors[i]
        /\ Len(r.chunks_left) = Len(r.chunks)
        /\ \A i \in 1..Len(r.chunks) :
              /\ DOMAIN r.chunks_left[i] = {"text", "metadata"}
              /\ r.chunks_left[i].text = r.chunks[i].text
              /\ r.chunks_left[i].metadata = r.chunks[i].metadata

\* Two chunks of one document embedded with different vectors, while another
\* session's run was under way.
C11_Witness ==
    \E r \in Records :
        /\ r.status = "true"
        /\ Len(r.embedded) >= 2
        /\ r.embedded[1].embedding # r.embedded[2].embedding
        /\ r.embedded[1].text # r.embedded[2].text

\* A file of a supported format that its parser can read
Loadable(f) == f.ext \in {".pdf", ".csv"} /\ f.readable

\* The run r has been through the loading loop
Loaded(r) == r.at \in {"embed", "loop", "add", "added", "stats", "end"}

\* C12: a file the loader cannot load is skipped and reported, every other
\* file is loaded and handed to chunking in its original relative order, and
\* process_documents returns False, inserting nothing, exactly when no file
\* could be loaded.
C12_UnloadableFilesSkipped ==
    \A r \in Records : Loaded(r) =>
        LET good == SelectSeq(r.file_paths, Loadable)
            bad == SelectSeq(r.file_paths, LAMBDA f : ~Loadable(f))
        IN  /\ r.documents = [i \in 1..Len(good) |-> LoadDocument(good[i]).doc]
            /\ r.reported = [i \in 1..Len(bad) |-> bad[i].name]
            /\ (r.status = "false") = (good = <<>>)
            /\ r.status = "false" =>
                  /\ r.requests = <<>>
                  /\ r.ids = <<>>
                  /\ r.wrote = <<>>
            /\ r.status # "false" => r.chunking = r.documents

\* A file that cannot be loaded ahead of one that can and reaches the collection.
C12_Witness ==
    \E r \in Records :
        /\ r.status = "true"
        /\ Len(r.file_paths) = 2
        /\ ~Loadable(r.file_paths[1])
        /\ Len(r.documents) = 1
        /\ r.reported = <<r.file_paths[1].name>>
        /\ r.wrote # <<>>

\* The embedding request of session s fails in this step
EmbeddingFails(s) ==
    /\ run[s].at = "embed"
    /\ run'[s].status = "raised" /\ run'[s].stage = "embedding"

C13_FailedRunInsertedNothing ==
    \A r \in Records :
        (r.attempts # <<>> /\ ~r.attempts[1].ok) =>
            /\ r.at = "end"
            /\ r.status = "raised" /\ r.stage = "embedding"
            /\ Len(r.requests) = 1
            /\ r.embedded = <<>>
            /\ r.ids = <<>>
            /\ r.wrote = <<>>

\* The step in which the request fails leaves the records and
\* documents_loaded as they are.
C13_FailureKeepsRecords ==
    \A s \in Objs :
        EmbeddingFails(s) =>
            /\ recs' = recs
            /\ documents_loaded' = documents_loaded

\* During ingestion the records change only by the collection.add of a run
\* whose embedding request was answered, which appends that run's records
\* behind the ones held.
C13_OnlyEmbeddedRunsWrite ==
    recs' # recs =>
        \E s \in Objs :
            /\ run[s].at = "add"
            /\ run[s].attempts[1].ok
            /\ run[s].embedded # <<>>
            /\ recs' = recs \o run'[s].wrote

C15_SameRequestAcrossSessions ==
    \A s, t \in Objs :
        (/\ run[s].at = "generate" /\ run[t].at = "generate"
         /\ run[s].prompt = run[t].prompt
         /\ run[s].q = run[t].q
         /\ run[s].results = run[t].results)
        => /\ run[s].retrieval = run[t].retrieval
           /\ run[s].gen = run[t].gen

\* A history changes only by the reset and by the chat handler's appends:
\* of the prompt before get_rag_response is called, and of what
\* get_rag_response returned after it has returned. While get_rag_response
\* waits for a service the history stays as it is.
C15_HistoryOnlyAppended ==
    \A s \in Objs :
        /\ chat_history'[s] # chat_history[s] =>
            \/ /\ run[s].at = "delete"
               /\ chat_history'[s] = <<>>
            \/ /\ run[s].at = "idle"
               /\ \E prompt \in Queries :
                     chat_history'[s] = Append(chat_history[s], UserMessage(prompt))
            \/ /\ run[s].at = "search"
               /\ chat_history'[s] =
                     Append(chat_history[s], AssistantMessage(Refusal, <<>>))
            \/ /\ run[s].at = "generate"
               /\ \E completion \in Answers :
                     chat_history'[s] =
                         Append(chat_history[s],
                                AssistantMessage(completion, run[s].results))
        /\ run'[s].at \in {"search", "generate"} =>
              chat_history'[s] = chat_history[s]

C16_LoadedImpliesLiveStore ==
    \A s \in Objs :
        /\ documents_loaded[s] =>
              handle[s] # 0 /\ embedding_generator[s] /\ IsLive(s)
        /\ handle[s] = 0 => ~documents_loaded[s] /\ chat_history[s] = <<>>

====
